---- MODULE Spec2Model ----
(***************************************************************************)
(* A model of the swagger-proxy dispatch layer: the route index built by   *)
(* New/registerPaths, the WriterRecorder, Validate and the request         *)
(* handlers (router dispatch, notFound, Handler).                          *)
(*                                                                         *)
(* Paths are sequences of segments, header values and bodies are sequences *)
(* of characters, so that matching, parsing and concatenation are computed *)
(* rather than assumed.                                                    *)
(***************************************************************************)
EXTENDS Integers, Sequences, FiniteSets, TLC

VARIABLES
  doc,        \* the *spec.Swagger handed to New: [BasePath, Paths]
  built,      \* TRUE once New has returned
  router,     \* proxy.router: the mux routes, in registration order
  routes,     \* proxy.routes: route (its index in router) -> *spec.Operation
  pc,         \* per request: where its handling stands
  req,        \* per request: [method, path, entry]
  dispatched, \* per request: the route the router dispatched on (0: none)
  match,      \* per request: the route Handler's own Match found (0: none)
  wr,         \* per request: the WriterRecorder [active, status, body]
  sink,       \* per request: the real http.ResponseWriter
  raw,        \* per request: what the backend's calls give on a bare writer
  writes,     \* per request: number of Write calls the backend has made
  written,    \* per request: the byte slices passed to Write, in call order
  call,       \* per request: the states left to go through in the Write call
              \* in progress on the recorder
  forwards,   \* per request: number of times the backend handler was invoked
  validated,  \* per request: number of times Validate was invoked
  reports,    \* per request: the notifications raised on the reporter
  headed,     \* per request: the status of the backend's last WriteHeader call
              \* (0: none)
  inputs,     \* the requests served and what they and the backend draw from
  probe       \* a call of validateHeaderValue on its own: arguments and result

vars == <<doc, built, router, routes, pc, req, dispatched, match, wr, sink, raw,
          writes, written, call, forwards, validated, reports, headed,
          inputs, probe>>

(***************************************************************************)
(* Bounds of the model.                                                    *)
(***************************************************************************)
MaxWrites == 2    \* Write calls one backend response makes

Reqs == {"r1", "r2"}

Nil == [kind |-> "nil"]

(***************************************************************************)
(* The contract document.                                                  *)
(***************************************************************************)
MethodOrder == <<"DELETE", "GET", "HEAD", "OPTIONS", "PATCH", "POST", "PUT">>
Methods == {MethodOrder[i] : i \in 1..Len(MethodOrder)}

TPetsId == <<"pets", "{id}">>
TPetsMine == <<"pets", "mine">>
Templates == {TPetsId, TPetsMine}
VarSegs == {"{id}"}
BasePaths == {<< >>, <<"v1">>}

HeaderNames == {"X-Rate", "X-Expires"}
Statuses == {200, 404}

\* The response contracts an operation of method m declares. A schema is
\* [type, limit]: limit is the maximum of an integer, the maxLength of a string.
ResponsesOf(m) ==
  CASE m = "GET" ->
         (200 :> [Headers |-> [h \in HeaderNames |->
                                      IF h = "X-Rate" THEN [Format |-> "int32"]
                                                      ELSE [Format |-> "date-time"]],
                       Schema |-> [type |-> "integer", limit |-> 50]])
    [] m = "POST" ->
         (200 :> [Headers |-> [h \in {"X-Rate"} |-> [Format |-> "uuid"]],
                       Schema |-> Nil])
         @@ (404 :> [Headers |-> [h \in {} |-> Nil],
                     Schema |-> [type |-> "string", limit |-> 1]])
    [] OTHER ->
         (200 :> [Headers |-> [h \in {} |-> Nil], Schema |-> Nil])

Operation(t, m) == [path |-> t, method |-> m, Responses |-> ResponsesOf(m)]

\* The path item of template t that declares the methods in D.
PathItem(t, D) ==
  [Delete  |-> IF "DELETE"  \in D THEN Operation(t, "DELETE")  ELSE Nil,
   Get     |-> IF "GET"     \in D THEN Operation(t, "GET")     ELSE Nil,
   Head    |-> IF "HEAD"    \in D THEN Operation(t, "HEAD")    ELSE Nil,
   Options |-> IF "OPTIONS" \in D THEN Operation(t, "OPTIONS") ELSE Nil,
   Patch   |-> IF "PATCH"   \in D THEN Operation(t, "PATCH")   ELSE Nil,
   Post    |-> IF "POST"    \in D THEN Operation(t, "POST")    ELSE Nil,
   Put     |-> IF "PUT"     \in D THEN Operation(t, "PUT")     ELSE Nil]

\* The operation a path item declares for method m (Nil: none).
Declared(item, m) ==
  CASE m = "DELETE"  -> item.Delete
    [] m = "GET"     -> item.Get
    [] m = "HEAD"    -> item.Head
    [] m = "OPTIONS" -> item.Options
    [] m = "PATCH"   -> item.Patch
    [] m = "POST"    -> item.Post
    [] m = "PUT"     -> item.Put

ReqMethods == {"GET", "POST"}

Swagger(b, D) == [BasePath |-> b, Paths |-> [t \in Templates |-> PathItem(t, D[t])]]

\* Documents a serving proxy is built from, and those New is exercised on.
ServedItems(t) == IF t = TPetsId THEN {{}, {"GET"}, {"POST"}, {"GET", "POST"}}
                                  ELSE {{}, {"GET", "POST"}}
ServedDocs == {Swagger(<<"v1">>, D) :
                 D \in {E \in [Templates -> SUBSET ReqMethods] :
                          \A t \in Templates : E[t] \in ServedItems(t)}}
AllDocs == {Swagger(b, D) : b \in BasePaths, D \in [Templates -> SUBSET Methods]}

(***************************************************************************)
(* Route Index: getOperations, registerPaths, and the router's matching.   *)
(***************************************************************************)
\* As getOperations, with plain ifs for the else-if chain: every declared
\* method gets an entry.
getOperations_All(props) ==
  {<<m, Declared(props, m)>> : m \in {n \in Methods : Declared(props, n) # Nil}}

\* The map getOperations returns, as a set of <<method, operation>> entries.
getOperations(props) ==
  IF props.Delete # Nil THEN {<<"DELETE", props.Delete>>}
  ELSE IF props.Get # Nil THEN {<<"GET", props.Get>>}
  ELSE IF props.Head # Nil THEN {<<"HEAD", props.Head>>}
  ELSE IF props.Options # Nil THEN {<<"OPTIONS", props.Options>>}
  ELSE IF props.Patch # Nil THEN {<<"PATCH", props.Patch>>}
  ELSE IF props.Post # Nil THEN {<<"POST", props.Post>>}
  ELSE IF props.Put # Nil THEN {<<"PUT", props.Put>>}
  ELSE {}

\* The inner loop of registerPaths: one route per entry of the map.
RECURSIVE registerOps(_, _, _)
registerOps(table, newPath, ops) ==
  IF ops = {} THEN table
  ELSE LET e == CHOOSE x \in ops : TRUE
           route == [tmpl |-> newPath, method |-> e[1]]
           next == [router |-> Append(table.router, route),
                    routes |-> Append(table.routes, e[2])]
       IN registerOps(next, newPath, ops \ {e})

\* registerPaths, the paths visited in the given order (Go's map order).
RECURSIVE registerPaths(_, _, _, _)
registerPaths(table, base, paths, order) ==
  IF order = << >> THEN table
  ELSE LET path == Head(order)
           next == registerOps(table, base \o path, getOperations(paths[path]))
       IN registerPaths(next, base, paths, Tail(order))

EmptyTable == [router |-> << >>, routes |-> << >>]

Orders(S) == {o \in [1..Cardinality(S) -> S] : \A i, j \in DOMAIN o : o[i] = o[j] => i = j}

\* A route's path template against a request path: segment by segment.
PathMatches(tmpl, path) ==
  /\ Len(tmpl) = Len(path)
  /\ \A i \in 1..Len(tmpl) : tmpl[i] \in VarSegs \/ tmpl[i] = path[i]

RouteMatches(route, method, path) ==
  PathMatches(route.tmpl, path) /\ route.method = method

\* router.Match: the first registered route that matches; 0 when none does.
Match(rt, method, path) ==
  LET hits == {i \in 1..Len(rt) : RouteMatches(rt[i], method, path)}
  IN IF hits = {} THEN 0 ELSE CHOOSE i \in hits : \A j \in hits : i <= j

\* As OpOf, with proxy.routes keyed by the route's method instead of the
\* route: the operation of the first route registered with that method.
OpOf_ByMethod(rts, idx) ==
  IF idx \notin 1..Len(rts) THEN Nil
  ELSE rts[CHOOSE i \in 1..Len(rts) :
             /\ router[i].method = router[idx].method
             /\ \A j \in 1..(i - 1) : router[j].method # router[idx].method]

\* proxy.routes[match.Route]
OpOf(rts, idx) == IF idx \in 1..Len(rts) THEN rts[idx] ELSE Nil

(***************************************************************************)
(* Parsers: json.Unmarshal on the body, swag.ConvertInt32 and              *)
(* strfmt.ParseDateTime on header values.                                  *)
(***************************************************************************)
Digits == <<"0", "1", "2", "3", "4", "5", "6", "7", "8", "9">>
IsDigit(c) == \E i \in 1..Len(Digits) : Digits[i] = c
DigitVal(c) == (CHOOSE i \in 1..Len(Digits) : Digits[i] = c) - 1

Int32Max == 2147483647

\* The value of a digit string, or -1 once it exceeds limit (strconv's cutoff).
RECURSIVE ParseUint(_, _, _)
ParseUint(s, acc, limit) ==
  IF s = << >> THEN acc
  ELSE IF ~IsDigit(Head(s)) THEN -1
  ELSE IF acc > (limit - DigitVal(Head(s))) \div 10 THEN -1
  ELSE ParseUint(Tail(s), 10 * acc + DigitVal(Head(s)), limit)

\* swag.ConvertInt32: TRUE when the value is no 32-bit integer.
ConvertInt32Fails(value) ==
  LET neg == value # << >> /\ Head(value) = "-"
      signed == value # << >> /\ Head(value) \in {"-", "+"}
      digits == IF signed THEN Tail(value) ELSE value
  IN \/ digits = << >>
     \/ IF neg THEN /\ ParseUint(digits, 0, Int32Max) = -1
                    /\ digits # <<"2", "1", "4", "7", "4", "8", "3", "6", "4", "8">>
               ELSE ParseUint(digits, 0, Int32Max) = -1

\* strfmt.ParseDateTime on a value cut into its layout fields: TRUE when the
\* value is no date "T" time zone.
ParseDateTimeFails(value) ==
  ~ /\ Len(value) = 4
    /\ value[1] \in {"2017-01-02"}
    /\ value[2] = "T"
    /\ value[3] \in {"03:04:05"}
    /\ value[4] \in {"Z", "+01:00"}

\* json.Unmarshal(body, &data) on bodies over the characters 0-9, " and x:
\* a number, a string, or an error.
Unmarshal(body) ==
  IF /\ body # << >> /\ \A i \in 1..Len(body) : IsDigit(body[i])
     /\ (Len(body) = 1 \/ body[1] # "0")
    THEN [err |-> FALSE, type |-> "integer",
          val |-> ParseUint(body, 0, Int32Max), str |-> << >>]
  ELSE IF /\ Len(body) >= 2
          /\ body[1] = "\"" /\ body[Len(body)] = "\""
          /\ \A i \in 2..(Len(body) - 1) : body[i] = "x"
    THEN [err |-> FALSE, type |-> "string",
          val |-> 0, str |-> SubSeq(body, 2, Len(body) - 1)]
  ELSE [err |-> TRUE, type |-> "none", val |-> 0, str |-> << >>]

(***************************************************************************)
(* Validation Engine Adapter: validateHeaderValue, the schema validator    *)
(* and Validate.                                                           *)
(***************************************************************************)
\* As validateHeaderValue, with the parsers of the two cases swapped.
validateHeaderValue_Swapped(key, value, spec) ==
  IF value = << >> THEN [kind |-> "missing", key |-> key]
  ELSE IF spec.Format = "int32"
    THEN IF ParseDateTimeFails(value) THEN [kind |-> "int32", key |-> key] ELSE Nil
  ELSE IF spec.Format = "date-time"
    THEN IF ConvertInt32Fails(value) THEN [kind |-> "date-time", key |-> key] ELSE Nil
  ELSE Nil

\* As validateHeaderValue, with the switch on the format before the test of
\* the empty value.
validateHeaderValue_FormatFirst(key, value, spec) ==
  IF spec.Format = "int32"
    THEN IF ConvertInt32Fails(value) THEN [kind |-> "int32", key |-> key] ELSE Nil
  ELSE IF spec.Format = "date-time"
    THEN IF ParseDateTimeFails(value) THEN [kind |-> "date-time", key |-> key] ELSE Nil
  ELSE IF value = << >> THEN [kind |-> "missing", key |-> key]
  ELSE Nil

\* validateHeaderValue: the error of one declared header, Nil when it passes.
validateHeaderValue(key, value, spec) ==
  IF value = << >> THEN [kind |-> "missing", key |-> key]
  ELSE IF spec.Format = "int32"
    THEN IF ConvertInt32Fails(value) THEN [kind |-> "int32", key |-> key] ELSE Nil
  ELSE IF spec.Format = "date-time"
    THEN IF ParseDateTimeFails(value) THEN [kind |-> "date-time", key |-> key] ELSE Nil
  ELSE Nil

\* validate.NewSchemaValidator(schema, ...).Validate(data): result.Errors.
SchemaErrors(schema, data) ==
  IF data.type # schema.type THEN <<[kind |-> "schema", key |-> "type"]>>
  ELSE IF data.type = "integer" /\ data.val > schema.limit
    THEN <<[kind |-> "schema", key |-> "maximum"]>>
  ELSE IF data.type = "string" /\ Len(data.str) > schema.limit
    THEN <<[kind |-> "schema", key |-> "maxLength"]>>
  ELSE << >>

\* The loop over resp.Headers, its keys visited in the given order.
RECURSIVE headerErrors(_, _, _)
headerErrors(order, header, declared) ==
  IF order = << >> THEN << >>
  ELSE LET key == Head(order)
           rest == headerErrors(Tail(order), header, declared)
       IN IF key \notin DOMAIN declared THEN rest
          ELSE LET err == validateHeaderValue(key, header[key], declared[key])
               IN IF err # Nil THEN <<err>> \o rest ELSE rest

\* As Validate, with the headers checked before the body is parsed and the
\* json error appended to what they gave.
Validate_HeadersFirst(status, header, body, resp, order) ==
  LET data == Unmarshal(body)
      herrs == headerErrors(order, header, resp.Headers)
      serrs == IF ~data.err /\ resp.Schema # Nil THEN SchemaErrors(resp.Schema, data)
                                                  ELSE << >>
      jerrs == IF data.err THEN <<[kind |-> "json"]>> ELSE << >>
      errs == herrs \o jerrs \o serrs
  IN IF Len(errs) = 0 THEN Nil
     ELSE IF errs = <<[kind |-> "json"]>> THEN [kind |-> "json"]
     ELSE [kind |-> "composite", errs |-> errs]

\* As Validate, returning at the first header error.
Validate_FirstHeaderOnly(status, header, body, resp, order) ==
  LET data == Unmarshal(body)
  IN IF data.err THEN [kind |-> "json"]
     ELSE LET herrs == headerErrors(order, header, resp.Headers)
              serrs == IF resp.Schema # Nil THEN SchemaErrors(resp.Schema, data)
                                            ELSE << >>
          IN IF herrs # << >> THEN [kind |-> "composite", errs |-> <<Head(herrs)>>]
             ELSE IF serrs # << >> THEN [kind |-> "composite", errs |-> serrs]
             ELSE Nil

\* As Validate, without the return of nil on an empty errs: the composite is
\* built from whatever was collected.
Validate_AlwaysComposite(status, header, body, resp, order) ==
  LET data == Unmarshal(body)
  IN IF data.err THEN [kind |-> "json"]
     ELSE LET herrs == headerErrors(order, header, resp.Headers)
              serrs == IF resp.Schema # Nil THEN SchemaErrors(resp.Schema, data)
                                            ELSE << >>
          IN [kind |-> "composite", errs |-> herrs \o serrs]

\* Validate: Nil, the json error, or the composite of every error collected.
\* order is the order in which Go's map iteration visits the header names.
Validate(status, header, body, resp, order) ==
  LET data == Unmarshal(body)
  IN IF data.err THEN [kind |-> "json"]
     ELSE LET herrs == headerErrors(order, header, resp.Headers)
              serrs == IF resp.Schema # Nil THEN SchemaErrors(resp.Schema, data)
                                            ELSE << >>
              errs == herrs \o serrs
          IN IF Len(errs) = 0 THEN Nil
             ELSE [kind |-> "composite", errs |-> errs]

(***************************************************************************)
(* The real http.ResponseWriter and the WriterRecorder wrapped around it.  *)
(***************************************************************************)
NoHeaders == [h \in HeaderNames |-> << >>]

\* A fresh response: nothing sent. header is the live map Header() returns,
\* sent the headers that went out with the status line.
NewSink == [header |-> NoHeaders, wroteHeader |-> FALSE, status |-> 0,
            sent |-> NoHeaders, body |-> << >>]

SinkSet(s, key, value) == [s EXCEPT !.header[key] = value]

\* ResponseWriter.WriteHeader: the first call sends status and headers, a
\* later one is ignored.
SinkWriteHeader(s, status) ==
  IF s.wroteHeader THEN s
  ELSE [s EXCEPT !.wroteHeader = TRUE, !.status = status, !.sent = s.header]

\* ResponseWriter.Write: sends 200 first when no status went out yet.
SinkWrite(s, body) ==
  LET t == SinkWriteHeader(s, 200)
  IN [t EXCEPT !.body = @ \o body]

\* The server completing the response when the top handler returns.
SinkFinish(s) == SinkWriteHeader(s, 200)

\* &WriterRecorder{ResponseWriter: w}, and the absence of a recorder.
NewRecorder == [active |-> TRUE, status |-> 0, body |-> << >>]
NoRecorder == [active |-> FALSE, status |-> 0, body |-> << >>]

\* WriterRecorder.WriteHeader: forwards, then records the status.
WriteHeader(w, s, status) ==
  [wr |-> [w EXCEPT !.status = status], sink |-> SinkWriteHeader(s, status)]

\* bytes.Buffer.Write: appends; the error it returns is always nil.
BufferWrite(buf, body) == [buf |-> buf \o body, n |-> Len(body), err |-> Nil]

\* As Write, forwarding the whole buffer instead of the bytes just written.
Write_ForwardsBuffer(w, s, body) ==
  LET b == BufferWrite(w.body, body)
      buffered == [w EXCEPT !.body = b.buf]
  IN <<[wr |-> buffered, sink |-> s],
       [wr |-> buffered, sink |-> SinkWrite(s, b.buf)]>>

\* As Write, with the two statements in the other order: the bytes go to the
\* real writer first, to the buffer after.
Write_ForwardFirst(w, s, body) ==
  LET b == BufferWrite(w.body, body)
      buffered == [w EXCEPT !.body = b.buf]
  IN <<[wr |-> w, sink |-> SinkWrite(s, body)],
       [wr |-> buffered, sink |-> SinkWrite(s, body)]>>

\* As Write, with the buffer holding the last slice only.
Write_KeepsLast(w, s, body) ==
  LET kept == [w EXCEPT !.body = body]
  IN <<[wr |-> kept, sink |-> s], [wr |-> kept, sink |-> SinkWrite(s, body)]>>

\* WriterRecorder.Write: appends to the buffer and, unless that failed,
\* forwards the bytes. The result is the recorder and the real writer after
\* each of the two statements (after the first alone when it failed).
Write(w, s, body) ==
  LET b == BufferWrite(w.body, body)
      buffered == [w EXCEPT !.body = b.buf]
  IN IF b.err # Nil THEN <<[wr |-> buffered, sink |-> s]>>
     ELSE <<[wr |-> buffered, sink |-> s],
            [wr |-> buffered, sink |-> SinkWrite(s, body)]>>

Body(w) == w.body
Status(w) == w.status

(***************************************************************************)
(* Notifications on the Reporter.                                          *)
(***************************************************************************)
Warning == [kind |-> "Warning", msg |-> "Route not defined on the Spec"]
Success == [kind |-> "Success"]
Error(err) == [kind |-> "Error", err |-> err]
StatusError(status) == [kind |-> "status", status |-> status]

\* The zero spec.Response a failed map lookup yields.
ZeroResponse == [Headers |-> [h \in {} |-> Nil], Schema |-> Nil]

\* As Outcome, with the else of the final if dropped: Success is raised after
\* the Error as well.
Outcome_NoElse(op, w, header, order) ==
  IF Status(w) \notin DOMAIN op.Responses
    THEN [notes |-> <<Error(StatusError(Status(w)))>>, validated |-> 0]
    ELSE LET specResp == op.Responses[Status(w)]
             err == Validate(Status(w), header, Body(w), specResp, order)
         IN [notes |-> IF err # Nil THEN <<Error(err), Success>> ELSE <<Success>>,
             validated |-> 1]

\* As Outcome, with the ok of the status lookup ignored: an undeclared status
\* is validated against the zero Response.
Outcome_IgnoresOk(op, w, header, order) ==
  LET specResp == IF Status(w) \in DOMAIN op.Responses
                    THEN op.Responses[Status(w)] ELSE ZeroResponse
      err == Validate(Status(w), header, Body(w), specResp, order)
  IN [notes |-> IF err # Nil THEN <<Error(err)>> ELSE <<Success>>, validated |-> 1]

\* Handler after next.ServeHTTP has returned: the notifications raised on the
\* recorded response, and the number of calls of Validate.
Outcome(op, w, header, order) ==
  IF Status(w) \notin DOMAIN op.Responses
    THEN [notes |-> <<Error(StatusError(Status(w)))>>, validated |-> 0]
    ELSE LET specResp == op.Responses[Status(w)]
             err == Validate(Status(w), header, Body(w), specResp, order)
         IN [notes |-> IF err # Nil THEN <<Error(err)>> ELSE <<Success>>,
             validated |-> 1]

(***************************************************************************)
(* Requests and backend responses the model draws from.                    *)
(***************************************************************************)
ReqPaths == {<<"v1", "pets", "7">>, <<"v1", "pets", "mine">>, <<"pets", "7">>}

V42 == <<"4", "2">>
VDate == <<"2017-01-02", "T", "03:04:05", "Z">>
BackendHeaders == {<<"X-Rate", V42>>, <<"X-Rate", VDate>>, <<"X-Expires", VDate>>}
Chunks == {<<"7">>, <<"\"">>}

\* Header values and declared formats validateHeaderValue is called on.
VMaxInt32 == <<"2", "1", "4", "7", "4", "8", "3", "6", "4", "7">>
VOverInt32 == <<"2", "1", "4", "7", "4", "8", "3", "6", "4", "8">>
VDateOffset == <<"2017-01-02", "T", "03:04:05", "+01:00">>
HeaderValues ==
  {<< >>, V42, <<"0">>, <<"-", "7">>, <<"+", "5">>, VMaxInt32, VOverInt32,
   <<"-">> \o VOverInt32, <<"-", "2", "1", "4", "7", "4", "8", "3", "6", "4", "9">>,
   <<"4", "x">>, <<"-">>, <<"1", "2", "3", "4">>,
   VDate, VDateOffset, <<"2017-01-02">>, <<"2017-01-02", "T", "03:04:05", "X">>}
HeaderFormats == {"int32", "date-time", "", "uuid", "int64", "date"}

\* One request at a time, on every method, path and backend response.
AllInputs ==
  [reqs |-> {"r1"}, methods |-> ReqMethods, paths |-> ReqPaths,
   headers |-> BackendHeaders, statuses |-> Statuses, chunks |-> Chunks,
   writes |-> MaxWrites]

\* Two requests at a time: POST on a declared and on an undeclared path, the
\* backend answering with one Write call.
ConcInputs ==
  [reqs |-> Reqs, methods |-> {"POST"},
   paths |-> {<<"v1", "pets", "7">>, <<"pets", "7">>},
   headers |-> {<<"X-Rate", V42>>}, statuses |-> Statuses, chunks |-> Chunks,
   writes |-> 1]

(***************************************************************************)
(* Construction.                                                           *)
(***************************************************************************)
Idle ==
  /\ pc = [r \in Reqs |-> "new"]
  /\ req = [r \in Reqs |-> Nil]
  /\ dispatched = [r \in Reqs |-> 0]
  /\ match = [r \in Reqs |-> 0]
  /\ wr = [r \in Reqs |-> NoRecorder]
  /\ sink = [r \in Reqs |-> NewSink]
  /\ raw = [r \in Reqs |-> NewSink]
  /\ writes = [r \in Reqs |-> 0]
  /\ written = [r \in Reqs |-> << >>]
  /\ call = [r \in Reqs |-> << >>]
  /\ forwards = [r \in Reqs |-> 0]
  /\ validated = [r \in Reqs |-> 0]
  /\ reports = [r \in Reqs |-> << >>]
  /\ headed = [r \in Reqs |-> 0]

writeVars == <<writes, written, call>>

reqVars == <<pc, req, dispatched, match, wr, sink, raw, writeVars, forwards,
             validated, reports, headed>>

\* New: builds the route index from the document, then returns the proxy.
New ==
  /\ ~built
  /\ \E order \in Orders(DOMAIN doc.Paths) :
       LET table == registerPaths(EmptyTable, doc.BasePath, doc.Paths, order)
       IN /\ router' = table.router
          /\ routes' = table.routes
  /\ built' = TRUE
  /\ UNCHANGED <<doc, reqVars, inputs, probe>>

\* A proxy before New, on any document.
InitBuild ==
  /\ doc \in AllDocs
  /\ built = FALSE
  /\ router = << >>
  /\ routes = << >>
  /\ Idle
  /\ inputs = AllInputs
  /\ probe = Nil

\* A proxy New has returned, on a served document.
Init ==
  /\ doc \in ServedDocs
  /\ built = TRUE
  /\ \E order \in Orders(DOMAIN doc.Paths) :
       LET table == registerPaths(EmptyTable, doc.BasePath, doc.Paths, order)
       IN /\ router = table.router
          /\ routes = table.routes
  /\ Idle
  /\ inputs = AllInputs
  /\ probe = Nil

(***************************************************************************)
(* Request handling.                                                       *)
(***************************************************************************)
proxyVars == <<doc, built, router, routes>>

\* proxy.Router().ServeHTTP: the router matches the request and dispatches it
\* to the matched route's handler, or to NotFoundHandler when none matches.
RouterServeHTTP(r) ==
  /\ built
  /\ r \in inputs.reqs
  /\ pc[r] = "new"
  /\ \E m \in inputs.methods, p \in inputs.paths :
       LET idx == Match(router, m, p)
       IN /\ req' = [req EXCEPT ![r] = [method |-> m, path |-> p, entry |-> "router"]]
          /\ dispatched' = [dispatched EXCEPT ![r] = idx]
          /\ pc' = [pc EXCEPT ![r] = IF idx # 0 THEN "handler" ELSE "notFound"]
  /\ UNCHANGED <<probe, inputs, headed, proxyVars, match, wr, sink, raw, writeVars, forwards, validated, reports>>

\* proxy.Handler(next).ServeHTTP: the exported wrapper serving a request itself.
HandlerServeHTTP(r) ==
  /\ built
  /\ r \in inputs.reqs
  /\ pc[r] = "new"
  /\ \E m \in inputs.methods, p \in inputs.paths :
       req' = [req EXCEPT ![r] = [method |-> m, path |-> p, entry |-> "wrapper"]]
  /\ pc' = [pc EXCEPT ![r] = "handler"]
  /\ UNCHANGED <<probe, inputs, headed, proxyVars, dispatched, match, wr, sink, raw, writeVars, forwards,
                 validated, reports>>

\* As notFoundBody, with the two statements in the other order.
notFoundBody_ForwardFirst == <<"Forward", "Warning">>

\* The statements of notFound, in order: reporter.Warning, then
\* reverseProxy.ServeHTTP on the bare writer.
notFoundBody == <<"Warning", "Forward">>

\* notFound, statement by statement: the Warning is raised, then the request
\* goes to the backend on the bare writer.
notFound(r) ==
  /\ pc[r] \in {"notFound", "notFound.2"}
  /\ LET i == IF pc[r] = "notFound" THEN 1 ELSE 2
         stmt == notFoundBody[i]
     IN /\ reports' = IF stmt = "Warning"
                        THEN [reports EXCEPT ![r] = Append(@, Warning)] ELSE reports
        /\ forwards' = IF stmt = "Forward"
                         THEN [forwards EXCEPT ![r] = @ + 1] ELSE forwards
        /\ pc' = [pc EXCEPT ![r] = IF i = 1 THEN "notFound.2" ELSE "proxying"]
  /\ UNCHANGED <<probe, inputs, headed, proxyVars, req, dispatched, match, wr, sink, raw, writeVars, validated>>

\* As recorderOf, with one recorder kept in the proxy for every request.
recorderOf_Shared(r) == "r1"

\* The WriterRecorder a call of Handler works on: wr := &WriterRecorder{...}
\* allocates one of the call's own.
recorderOf(r) == r

\* Handler up to next.ServeHTTP: its own Match; on a miss Warning and return,
\* else the request goes to the backend on a new recorder.
HandlerBegin(r) ==
  /\ pc[r] = "handler"
  /\ LET idx == Match(router, req[r].method, req[r].path)
         op == OpOf(routes, idx)
     IN /\ match' = [match EXCEPT ![r] = idx]
        /\ IF idx = 0 \/ op = Nil
             THEN /\ reports' = [reports EXCEPT ![r] = Append(@, Warning)]
                  /\ pc' = [pc EXCEPT ![r] = "done"]
                  /\ sink' = [sink EXCEPT ![r] = SinkFinish(@)]
                  /\ raw' = [raw EXCEPT ![r] = SinkFinish(@)]
                  /\ UNCHANGED <<wr, forwards>>
             ELSE /\ wr' = [wr EXCEPT ![recorderOf(r)] = NewRecorder]
                  /\ forwards' = [forwards EXCEPT ![r] = @ + 1]
                  /\ pc' = [pc EXCEPT ![r] = "proxying"]
                  /\ UNCHANGED <<reports, sink, raw>>
  /\ UNCHANGED <<probe, inputs, headed, proxyVars, req, dispatched, writeVars, validated>>

\* The backend sets a response header: Header() is the real writer's map,
\* with or without the recorder.
BackendSet(r) ==
  /\ pc[r] = "proxying"
  /\ \E kv \in inputs.headers :
       /\ sink' = [sink EXCEPT ![r] = SinkSet(@, kv[1], kv[2])]
       /\ raw' = [raw EXCEPT ![r] = SinkSet(@, kv[1], kv[2])]
  /\ UNCHANGED <<probe, inputs, headed, proxyVars, pc, req, dispatched, match, wr, writeVars, forwards,
                 validated, reports>>

\* The backend calls WriteHeader on the writer it was given.
BackendWriteHeader(r) ==
  /\ pc[r] = "proxying"
  /\ \E status \in inputs.statuses :
       /\ IF wr[recorderOf(r)].active
            THEN LET res == WriteHeader(wr[recorderOf(r)], sink[r], status)
                 IN /\ wr' = [wr EXCEPT ![recorderOf(r)] = res.wr]
                    /\ sink' = [sink EXCEPT ![r] = res.sink]
            ELSE /\ sink' = [sink EXCEPT ![r] = SinkWriteHeader(@, status)]
                 /\ UNCHANGED wr
       /\ raw' = [raw EXCEPT ![r] = SinkWriteHeader(@, status)]
       /\ headed' = [headed EXCEPT ![r] = status]
  /\ UNCHANGED <<probe, inputs, proxyVars, pc, req, dispatched, match, writeVars, forwards,
                 validated, reports>>

\* The backend calls Write on the writer it was given: on the recorder the
\* call's first statement runs, on the bare writer the whole call.
BackendWrite(r) ==
  /\ pc[r] = "proxying"
  /\ writes[r] < inputs.writes
  /\ \E body \in inputs.chunks :
       /\ IF wr[recorderOf(r)].active
            THEN LET steps == Write(wr[recorderOf(r)], sink[r], body)
                 IN /\ wr' = [wr EXCEPT ![recorderOf(r)] = Head(steps).wr]
                    /\ sink' = [sink EXCEPT ![r] = Head(steps).sink]
                    /\ call' = [call EXCEPT ![r] = Tail(steps)]
                    /\ pc' = [pc EXCEPT ![r] = IF Tail(steps) = << >> THEN "proxying"
                                                                      ELSE "writing"]
            ELSE /\ sink' = [sink EXCEPT ![r] = SinkWrite(@, body)]
                 /\ UNCHANGED <<wr, call, pc>>
       /\ raw' = [raw EXCEPT ![r] = SinkWrite(@, body)]
       /\ written' = [written EXCEPT ![r] = Append(@, body)]
  /\ writes' = [writes EXCEPT ![r] = @ + 1]
  /\ UNCHANGED <<probe, inputs, headed, proxyVars, req, dispatched, match, forwards, validated, reports>>

\* The Write call in progress on the recorder goes on: its next statement
\* runs, and it returns to the backend when that was the last.
WriteStep(r) ==
  /\ pc[r] = "writing"
  /\ wr' = [wr EXCEPT ![recorderOf(r)] = Head(call[r]).wr]
  /\ sink' = [sink EXCEPT ![r] = Head(call[r]).sink]
  /\ call' = [call EXCEPT ![r] = Tail(@)]
  /\ pc' = [pc EXCEPT ![r] = IF Tail(call[r]) = << >> THEN "proxying" ELSE "writing"]
  /\ UNCHANGED <<probe, inputs, headed, proxyVars, req, dispatched, match, raw, writes, written, forwards,
                 validated, reports>>

\* The backend handler returns: to Handler when it was given a recorder, to
\* the server (the response is complete) when notFound called it.
BackendReturn(r) ==
  /\ pc[r] = "proxying"
  /\ IF wr[recorderOf(r)].active
       THEN /\ pc' = [pc EXCEPT ![r] = "returned"]
            /\ UNCHANGED <<sink, raw>>
       ELSE /\ pc' = [pc EXCEPT ![r] = "done"]
            /\ sink' = [sink EXCEPT ![r] = SinkFinish(@)]
            /\ raw' = [raw EXCEPT ![r] = SinkFinish(@)]
  /\ UNCHANGED <<probe, inputs, headed, proxyVars, req, dispatched, match, wr, writeVars, forwards, validated, reports>>

\* Handler after next.ServeHTTP: status lookup, Validate, one notification.
HandlerEnd(r) ==
  /\ pc[r] = "returned"
  /\ \E order \in Orders(HeaderNames) :
       LET out == Outcome(OpOf(routes, match[r]), wr[recorderOf(r)], sink[r].header, order)
       IN /\ reports' = [reports EXCEPT ![r] = @ \o out.notes]
          /\ validated' = [validated EXCEPT ![r] = @ + out.validated]
  /\ pc' = [pc EXCEPT ![r] = "done"]
  /\ sink' = [sink EXCEPT ![r] = SinkFinish(@)]
  /\ raw' = [raw EXCEPT ![r] = SinkFinish(@)]
  /\ UNCHANGED <<probe, inputs, headed, proxyVars, req, dispatched, match, wr, writeVars, forwards>>

Next ==
  \E r \in Reqs :
    \/ RouterServeHTTP(r)
    \/ HandlerServeHTTP(r)
    \/ notFound(r)
    \/ HandlerBegin(r)
    \/ BackendSet(r)
    \/ BackendWriteHeader(r)
    \/ BackendWrite(r)
    \/ WriteStep(r)
    \/ BackendReturn(r)
    \/ HandlerEnd(r)

Spec == Init /\ [][Next]_vars

\* Every handler runs to its end, and the backend handler returns.
FairSpec ==
  /\ Spec
  /\ \A r \in Reqs :
       /\ WF_vars(notFound(r))
       /\ WF_vars(HandlerBegin(r))
       /\ WF_vars(WriteStep(r))
       /\ WF_vars(BackendReturn(r))
       /\ WF_vars(HandlerEnd(r))

\* New alone, on every document.
BuildSpec == InitBuild /\ [][New]_vars

\* Two requests in flight at once on one proxy, whose document declares POST
\* on /pets/{id}.
ConcInit ==
  /\ doc = Swagger(<<"v1">>, [t \in Templates |-> IF t = TPetsId THEN {"POST"} ELSE {}])
  /\ built = TRUE
  /\ \E order \in Orders(DOMAIN doc.Paths) :
       LET table == registerPaths(EmptyTable, doc.BasePath, doc.Paths, order)
       IN /\ router = table.router
          /\ routes = table.routes
  /\ Idle
  /\ inputs = ConcInputs
  /\ probe = Nil

ConcSpec == ConcInit /\ [][Next]_vars

\* validateHeaderValue is about to be called on a key, a value and a format.
InitHeader ==
  /\ doc = Swagger(<< >>, [t \in Templates |-> {}])
  /\ built = FALSE
  /\ router = << >>
  /\ routes = << >>
  /\ Idle
  /\ inputs = AllInputs
  /\ probe \in [key : HeaderNames, value : HeaderValues, format : HeaderFormats,
                 returned : {FALSE}, err : {Nil}]

\* The call returns its error.
validateHeaderValueCall ==
  /\ probe # Nil
  /\ ~probe.returned
  /\ probe' = [probe EXCEPT
                 !.returned = TRUE,
                 !.err = validateHeaderValue(probe.key, probe.value,
                                             [Format |-> probe.format])]
  /\ UNCHANGED <<proxyVars, reqVars, inputs>>

\* validateHeaderValue alone, on every key, value and format.
HeaderSpec == InitHeader /\ [][validateHeaderValueCall]_vars

(***************************************************************************)
(* Vocabulary of the properties.                                           *)
(***************************************************************************)
Done(r) == pc[r] = "done"

\* The request went to the backend through a recorder.
Recorded(r) == wr[r].active

\* No registered route matches the request's method and path.
NoRoute(r) == req[r] # Nil /\ Match(router, req[r].method, req[r].path) = 0

\* The operation Handler selected for the request.
OpFor(r) == OpOf(routes, match[r])

\* The recorded status is declared by the selected operation.
StatusDeclared(r) == Recorded(r) /\ Status(wr[r]) \in DOMAIN OpFor(r).Responses

\* The response contract of the recorded status.
ContractFor(r) == OpFor(r).Responses[Status(wr[r])]

\* The declared headers of a contract that the captured headers fail.
BadHeaders(header, resp) ==
  {k \in DOMAIN resp.Headers :
     \/ header[k] = << >>
     \/ resp.Headers[k].Format = "int32" /\ ConvertInt32Fails(header[k])
     \/ resp.Headers[k].Format = "date-time" /\ ParseDateTimeFails(header[k])}

\* The captured response conforms to a contract that has a body schema.
Conforms(header, body, resp) ==
  /\ resp.Schema # Nil
  /\ ~Unmarshal(body).err
  /\ SchemaErrors(resp.Schema, Unmarshal(body)) = << >>
  /\ BadHeaders(header, resp) = {}

\* The methods a path item declares, and the first of them in MethodOrder.
DeclaredMethods(item) == {m \in Methods : Declared(item, m) # Nil}
FirstDeclared(item) ==
  MethodOrder[CHOOSE i \in 1..Len(MethodOrder) :
                /\ MethodOrder[i] \in DeclaredMethods(item)
                /\ \A j \in 1..(i - 1) : MethodOrder[j] \notin DeclaredMethods(item)]

\* The routes registered under the path item of template t.
RoutesOf(t) == {i \in 1..Len(router) : router[i].tmpl = doc.BasePath \o t}

(***************************************************************************)
(* C1: every request that is handled ends done with exactly one            *)
(* notification on the reporter, a Warning, an Error or a Success; there   *)
(* are never two.                                                          *)
(***************************************************************************)
C1_OneNotification ==
  /\ [](\A r \in Reqs :
          /\ Len(reports[r]) <= 1
          /\ Done(r) => /\ Len(reports[r]) = 1
                        /\ reports[r][1].kind \in {"Warning", "Error", "Success"})
  /\ \A r \in Reqs : (pc[r] # "new") ~> Done(r)

C1_Witness ==
  \E r \in Reqs : /\ Done(r) /\ req[r].entry = "wrapper" /\ Recorded(r)
                  /\ Len(reports[r]) = 1 /\ reports[r][1].kind = "Error"

C3_UnmatchedForwarded ==
  \A r \in Reqs :
    (Done(r) /\ NoRoute(r)) =>
      /\ reports[r] = <<Warning>>
      /\ forwards[r] = 1
      /\ ~Recorded(r) /\ validated[r] = 0
      /\ sink[r] = raw[r]

(***************************************************************************)
(* C4 (as stated): every handled request is forwarded to the backend       *)
(* exactly once, on each of the three dispatch paths.                      *)
(***************************************************************************)
C4_ForwardedOnce ==
  \A r \in Reqs : /\ forwards[r] <= 1
                  /\ Done(r) => forwards[r] = 1

(***************************************************************************)
(* C5: a matched request whose recorded status the operation does not      *)
(* declare gets exactly one Error, "status not defined", Validate is not   *)
(* called and no Success is raised, parseable body or not.                 *)
(***************************************************************************)
C5_UndeclaredStatus ==
  \A r \in Reqs :
    (Done(r) /\ Recorded(r) /\ ~StatusDeclared(r)) =>
      /\ reports[r] = <<Error(StatusError(Status(wr[r])))>>
      /\ validated[r] = 0

C5_Witness ==
  \E r \in Reqs : /\ Done(r) /\ Recorded(r) /\ ~StatusDeclared(r)
                  /\ Status(wr[r]) = 404
                  /\ Unmarshal(Body(wr[r])).err

(***************************************************************************)
(* C6: no false positives. When the captured body satisfies the schema of  *)
(* the contract and every declared header is present, non-empty and well   *)
(* formed, Validate returns no error and the request's notification is     *)
(* Success.                                                                *)
(***************************************************************************)
C6_NoFalsePositive ==
  \A r \in Reqs :
    (Done(r) /\ StatusDeclared(r)
       /\ Conforms(sink[r].header, Body(wr[r]), ContractFor(r))) =>
      /\ \A order \in Orders(HeaderNames) :
           Validate(Status(wr[r]), sink[r].header, Body(wr[r]), ContractFor(r), order) = Nil
      /\ reports[r] = <<Success>>

C6_Witness ==
  \E r \in Reqs : /\ Done(r) /\ StatusDeclared(r)
                  /\ Conforms(sink[r].header, Body(wr[r]), ContractFor(r))
                  /\ DOMAIN ContractFor(r).Headers = HeaderNames

(***************************************************************************)
(* C7: when the captured body is no JSON, the notification is one Error    *)
(* that carries the parse failure alone, whether the declared headers      *)
(* would have passed or failed.                                            *)
(***************************************************************************)
C7_ParseFailureOnly ==
  \A r \in Reqs :
    (Done(r) /\ StatusDeclared(r) /\ Unmarshal(Body(wr[r])).err) =>
      reports[r] = <<Error([kind |-> "json"])>>

C7_Witness ==
  \E r \in Reqs : /\ Done(r) /\ StatusDeclared(r) /\ Unmarshal(Body(wr[r])).err
                  /\ Cardinality(BadHeaders(sink[r].header, ContractFor(r))) = 2

(***************************************************************************)
(* C8: header checks do not short-circuit. With a parseable body the       *)
(* composite error holds exactly one error for each declared header that   *)
(* is missing, empty or malformed, and every schema error after them; with *)
(* none of either the notification is Success.                             *)
(***************************************************************************)
C8_AllViolations ==
  \A r \in Reqs :
    (Done(r) /\ StatusDeclared(r) /\ ~Unmarshal(Body(wr[r])).err) =>
      LET bad == BadHeaders(sink[r].header, ContractFor(r))
          serrs == IF ContractFor(r).Schema = Nil THEN << >>
                   ELSE SchemaErrors(ContractFor(r).Schema, Unmarshal(Body(wr[r])))
          n == Cardinality(bad)
      IN IF n + Len(serrs) = 0 THEN reports[r] = <<Success>>
         ELSE /\ Len(reports[r]) = 1
              /\ reports[r][1].kind = "Error"
              /\ reports[r][1].err.kind = "composite"
              /\ LET errs == reports[r][1].err.errs
                 IN /\ Len(errs) = n + Len(serrs)
                    /\ \A k \in bad :
                         Cardinality({i \in 1..n : errs[i].key = k}) = 1
                    /\ SubSeq(errs, n + 1, Len(errs)) = serrs

C8_Witness ==
  \E r \in Reqs : /\ Done(r) /\ StatusDeclared(r) /\ ~Unmarshal(Body(wr[r])).err
                  /\ sink[r].header["X-Rate"] = VDate
                  /\ sink[r].header["X-Expires"] = << >>
                  /\ reports[r][1].kind = "Error"
                  /\ Len(reports[r][1].err.errs) = 2

Unselected(r) ==
  /\ req[r] # Nil
  /\ \E t \in DOMAIN doc.Paths :
       /\ PathMatches(doc.BasePath \o t, req[r].path)
       /\ req[r].method \in DeclaredMethods(doc.Paths[t])
       /\ req[r].method # FirstDeclared(doc.Paths[t])
  /\ \A t \in DOMAIN doc.Paths :
       (PathMatches(doc.BasePath \o t, req[r].path)
          /\ DeclaredMethods(doc.Paths[t]) # {})
       => req[r].method # FirstDeclared(doc.Paths[t])

IsPrefix(a, b) == Len(a) <= Len(b) /\ SubSeq(b, 1, Len(a)) = a

RECURSIVE Concat(_)
Concat(slices) ==
  IF slices = << >> THEN << >> ELSE Head(slices) \o Concat(Tail(slices))

\* The backend handler has returned to Handler.
Returned(r) == pc[r] \in {"returned", "done"}

(***************************************************************************)
(* C11: in a Write call on the recorder the bytes are in the buffer before *)
(* they go to the real writer: the real writer's body is always a prefix   *)
(* of the buffer, and while the call is between its two statements the     *)
(* buffer holds every slice written and the real writer all but the last.  *)
(***************************************************************************)
C11_BufferBeforeForward ==
  \A r \in Reqs :
    Recorded(r) =>
      /\ IsPrefix(sink[r].body, Body(wr[r]))
      /\ pc[r] = "writing" =>
           /\ Body(wr[r]) = Concat(written[r])
           /\ sink[r].body = Concat(SubSeq(written[r], 1, Len(written[r]) - 1))

C11_Witness ==
  \E r \in Reqs : /\ Recorded(r) /\ pc[r] = "writing"
                  /\ written[r] = <<<<"7">>, <<"\"">>>>
                  /\ Body(wr[r]) = <<"7", "\"">>
                  /\ sink[r].body = <<"7">>

(***************************************************************************)
(* C12 (as stated): once the backend handler has returned, Status() of the *)
(* recorder is the status code delivered to the caller, whatever calls of  *)
(* WriteHeader and Write the handler made.                                 *)
(***************************************************************************)
C12_StatusIsDelivered ==
  \A r \in Reqs :
    (Recorded(r) /\ Returned(r)) => Status(wr[r]) = SinkFinish(sink[r]).status

(***************************************************************************)
(* C13: Body() of the recorder is the concatenation, in call order, of     *)
(* every slice passed to Write, whatever their number; and once the        *)
(* backend handler has returned, it is the body delivered to the caller.   *)
(***************************************************************************)
C13_BodyIsConcatenation ==
  \A r \in Reqs :
    Recorded(r) =>
      /\ Body(wr[r]) = Concat(written[r])
      /\ Returned(r) => Body(wr[r]) = sink[r].body

C13_Witness ==
  \E r \in Reqs : /\ Recorded(r) /\ Done(r) /\ validated[r] = 1
                  /\ written[r] = <<<<"\"">>, <<"\"">>>>
                  /\ Body(wr[r]) = <<"\"", "\"">>
                  /\ reports[r] = <<Success>>

(***************************************************************************)
(* C14: for a request the router dispatched to a route's handler, the      *)
(* Match inside Handler finds that same route, and the operation that      *)
(* governs the request is the one bound to it; also when several           *)
(* registered templates match the path.                                    *)
(***************************************************************************)
C14_SameRoute ==
  \A r \in Reqs :
    (req[r] # Nil /\ req[r].entry = "router" /\ dispatched[r] # 0
       /\ pc[r] \notin {"new", "handler"}) =>
      /\ match[r] = dispatched[r]
      /\ OpFor(r) # Nil
      /\ OpFor(r) = routes[dispatched[r]]

C14_Witness ==
  \E r \in Reqs :
    /\ Done(r) /\ req[r].entry = "router" /\ Recorded(r)
    /\ Cardinality({i \in 1..Len(router) :
                      RouteMatches(router[i], req[r].method, req[r].path)}) = 2
    /\ match[r] = 1
    /\ router[1].tmpl = <<"v1", "pets", "mine">>

(***************************************************************************)
(* C15: event ordering within one request. On the matched path nothing is  *)
(* reported and Validate has not run while the backend handler is running; *)
(* the notification is raised, and Validate runs, in a step taken after    *)
(* the backend handler has returned, with no Write call in progress and    *)
(* all the backend wrote already on the caller's writer, and that step     *)
(* leaves the recorder and the body delivered as they are. On the          *)
(* unmatched path the request is at the backend only with the Warning      *)
(* already raised.                                                         *)
(***************************************************************************)
C15_Ordering ==
  /\ [](\A r \in Reqs :
          /\ (Recorded(r) /\ pc[r] \in {"proxying", "writing"}) =>
                (reports[r] = << >> /\ validated[r] = 0)
          /\ (~Recorded(r) /\ forwards[r] > 0) => reports[r] = <<Warning>>)
  /\ [][\A r \in Reqs :
          (Recorded(r) /\ (reports'[r] # reports[r] \/ validated'[r] # validated[r])) =>
            /\ pc[r] = "returned" /\ call[r] = << >>
            /\ sink[r].body = Concat(written[r])
            /\ sink[r] = raw[r]
            /\ wr'[r] = wr[r] /\ sink'[r].body = sink[r].body]_vars

C15_Witness ==
  \E r \in Reqs : /\ ~Recorded(r) /\ pc[r] = "proxying" /\ forwards[r] = 1
                  /\ reports[r] = <<Warning>> /\ sink[r].body # << >>

(***************************************************************************)
(* C17: header format check. An absent or empty value gives the "missing"  *)
(* error of its key whatever the declared format; a non-empty value gives  *)
(* an error exactly when the format is int32 and the value is no 32-bit    *)
(* decimal integer, or the format is date-time and the value is no date    *)
(* and time; under any other format a non-empty value gives none.          *)
(***************************************************************************)
Int32Values ==
  {V42, <<"0">>, <<"-", "7">>, <<"+", "5">>, <<"1", "2", "3", "4">>, VMaxInt32,
   <<"-">> \o VOverInt32}
DateTimeValues == {VDate, VDateOffset}

C17_HeaderFormat ==
  (probe # Nil /\ probe.returned) =>
    IF probe.value = << >>
      THEN probe.err = [kind |-> "missing", key |-> probe.key]
    ELSE IF probe.format = "int32"
      THEN IF probe.value \in Int32Values
             THEN probe.err = Nil
             ELSE probe.err = [kind |-> "int32", key |-> probe.key]
    ELSE IF probe.format = "date-time"
      THEN IF probe.value \in DateTimeValues
             THEN probe.err = Nil
             ELSE probe.err = [kind |-> "date-time", key |-> probe.key]
    ELSE probe.err = Nil

C17_Witness ==
  /\ probe # Nil /\ probe.returned
  /\ probe.value = VOverInt32 /\ probe.format = "uuid" /\ probe.err = Nil

(***************************************************************************)
(* C18: Success is raised for a request only if Handler matched it to a    *)
(* registered route with an operation, it went to the backend once through *)
(* a recorder, the recorded status is declared by that operation, the      *)
(* recorded body parses, no declared header is missing or malformed, the   *)
(* schema gives no error and Validate returns nil; and an Error that       *)
(* carries a composite from Validate never carries an empty one.           *)
(***************************************************************************)
C18_SuccessOnlyIfValid ==
  \A r \in Reqs :
    \A i \in 1..Len(reports[r]) :
      /\ reports[r][i].kind = "Success" =>
            /\ ~NoRoute(r) /\ match[r] # 0 /\ OpFor(r) # Nil
            /\ Recorded(r) /\ forwards[r] = 1 /\ validated[r] = 1
            /\ StatusDeclared(r)
            /\ ~Unmarshal(Body(wr[r])).err
            /\ BadHeaders(sink[r].header, ContractFor(r)) = {}
            /\ ContractFor(r).Schema # Nil =>
                  SchemaErrors(ContractFor(r).Schema, Unmarshal(Body(wr[r]))) = << >>
            /\ \A order \in Orders(HeaderNames) :
                 Validate(Status(wr[r]), sink[r].header, Body(wr[r]),
                          ContractFor(r), order) = Nil
      /\ (reports[r][i].kind = "Error" /\ reports[r][i].err.kind = "composite") =>
            Len(reports[r][i].err.errs) > 0

C18_Witness ==
  \E r \in Reqs : /\ Done(r) /\ reports[r] = <<Success>>
                  /\ req[r].method = "POST" /\ Status(wr[r]) = 200
                  /\ sink[r].header["X-Rate"] = VDate
                  /\ Body(wr[r]) = <<"7">>

(***************************************************************************)
(* C16: concurrently handled requests. Once New has returned no step       *)
(* changes the document, the router or the route table; no step changes    *)
(* the state of two requests, the recorder included, so that a request's   *)
(* recorder is written by that request alone; and the notification of a    *)
(* request that is done is the one Handler raises on that request's own    *)
(* route, on the status of its backend's last WriteHeader call, the slices *)
(* its backend wrote and the headers its backend set, whatever the other   *)
(* request did meanwhile.                                                  *)
(***************************************************************************)
\* All that the model holds of one request.
ReqState(r) ==
  <<pc[r], req[r], dispatched[r], match[r], wr[r], sink[r], raw[r], writes[r],
    written[r], call[r], forwards[r], validated[r], reports[r], headed[r]>>

\* The notifications of the request handled alone, on what its own backend did.
Alone(r, order) ==
  LET idx == Match(router, req[r].method, req[r].path)
      op == OpOf(routes, idx)
      own == [active |-> TRUE, status |-> headed[r], body |-> Concat(written[r])]
  IN IF idx = 0 \/ op = Nil THEN <<Warning>>
     ELSE Outcome(op, own, raw[r].header, order).notes

C16_Isolation ==
  /\ [][/\ built => UNCHANGED <<doc, router, routes>>
        /\ \A r1, r2 \in Reqs :
             r1 # r2 => (ReqState(r1)' = ReqState(r1) \/ ReqState(r2)' = ReqState(r2))]_vars
  /\ [](\A r \in Reqs :
          Done(r) => \E order \in Orders(HeaderNames) : reports[r] = Alone(r, order))

C16_Witness ==
  /\ Done("r1") /\ Recorded("r1") /\ reports["r1"] = <<Success>>
  /\ Recorded("r2") /\ pc["r2"] = "writing" /\ written["r2"] = <<<<"\"">>>>
  /\ match["r1"] = match["r2"]

====
